---- MODULE Spec2Model ----
(***************************************************************************)
(* A model of the persistence layer (lib/database.ts) and of the ingestion *)
(* CLI (bin/youtube-fetcher.ts).                                           *)
(*                                                                         *)
(* The process is a single-threaded event loop: an async function runs     *)
(* without interruption up to its next await, so every action below is one *)
(* such run-to-the-next-await segment of one call.  The database executes  *)
(* a statement atomically at the moment its promise settles.               *)
(***************************************************************************)
EXTENDS Integers, Sequences, FiniteSets, TLC

\* ----------------------------------------------------------------------
\* Bounds of the model
\* ----------------------------------------------------------------------
NumTasks == 2       \* calls of the persistence layer that may overlap
MaxCalls == 2       \* calls a run makes in all when calls may overlap
MaxSeqCalls == 4    \* calls a run makes in all when each is awaited before the next
MaxArgs == 4        \* length of the CLI's argument vector
MaxVideos == 3      \* records a keyword search returns at most

\* ----------------------------------------------------------------------
\* Program constants
\* ----------------------------------------------------------------------
Retries == 5                \* connectWithRetry(retries = 5, ...)
RetryInterval == 2000       \* connectWithRetry(..., retryInterval = 2000)
DefaultMaxResults == 1000   \* options.maxResults || 1000

Tasks == 1 .. NumTasks

\* A nullable value is <<>> (null / undefined) or <<v>>.
NULL == <<>>
Some(v) == <<v>>

\* ----------------------------------------------------------------------
\* Input domains
\* ----------------------------------------------------------------------
VideoIds == {"a", "b"}
Languages == {NULL, Some("fr")}
Symptoms == {NULL, Some(<<"s1">>)}

\* interface VideoMetadata; viewCount and url are never read by storeVideo.
\* Per ID: two records that differ in every field, the second with the empty
\* date and the zero duration, and one whose title is missing at run time.
VideoMetadata ==
  UNION {{[id |-> v, title |-> Some("t1"), description |-> "d1",
           publishedDate |-> "p1", durationInSeconds |-> 60],
          [id |-> v, title |-> Some("t2"), description |-> "d2",
           publishedDate |-> "", durationInSeconds |-> 0],
          [id |-> v, title |-> NULL, description |-> "d1",
           publishedDate |-> "p1", durationInSeconds |-> 60]} : v \in VideoIds}

\* AnalysisResult: name stands for the fields passed through unchanged,
\* symptoms for the fields serialized when present.
AnalysisResult == [name : {"n1"}, symptoms : Symptoms]

NoArg == [kind |-> "none"]

\* ----------------------------------------------------------------------
\* Conversions
\* ----------------------------------------------------------------------
\* x || null
OrNull(x, falsy) == IF x = falsy THEN NULL ELSE Some(x)

\* x || dflt, on a nullable column value
OrDefault(col, dflt) == IF col = NULL THEN dflt ELSE col[1]

\* the url column: `https://youtube.com/watch?v=${metadata.id}`
UrlOf(id) == <<"https://youtube.com/watch?v=", id>>

JSONstringify(v) == <<"json", v>>

\* language: string = 'en'
LanguageOrDefault(l) == IF l = NULL THEN "en" ELSE l[1]

\* ----------------------------------------------------------------------
\* State
\* ----------------------------------------------------------------------
VARIABLES
  pool,           \* let pool: Pool | null -- NULL or Some(the Pool object)
  tables,         \* the tables that exist in the database
  videos,         \* rows of table videos
  transcripts,    \* rows of table transcripts
  analysis,       \* rows of table analysis
  pc,             \* per call: the await it is suspended at
  op,             \* per call: the exported function that was called
  arg,            \* per call: its arguments
  attempt,        \* per call: connectWithRetry's local `attempt`
  waited,         \* per call: milliseconds connectWithRetry has slept
  result,         \* per call: "pending", "ok" or the place the error came from
  ret,            \* per call: the value it returned
  lastStored,     \* per video ID: metadata of the latest storeVideo that succeeded
  passed,         \* video IDs that have been passed to storeVideo
  initCompleted,  \* some initializeDatabase call has run to its end
  poolAssigns,    \* number of assignments made to `pool`
  overwrites,     \* number of storeVideo statements that updated an existing row
  started,        \* number of calls of the persistence layer made so far
  args,           \* CLI: process.argv.slice(2)
  options,        \* CLI: the parsed Options
  cliPc,          \* CLI: where main() is
  outputData,     \* CLI: the collected records
  idx,            \* CLI: position of the store loop in outputData
  storeCalls,     \* CLI: records main has passed to storeVideo, in order
  storeOk,        \* CLI: for each of these, whether the call returned
  fetched,        \* CLI: which fetch call was made, and what it yielded
  initCalls,      \* CLI: number of initializeDatabase calls made by main
  outFile,        \* CLI: content written to --output-file
  idsFile,        \* CLI: content written to --video-ids-file
  stdout,         \* CLI: lines written to standard output
  exitCode        \* CLI: NULL while running, Some(code) once the process ended

dbVars == <<tables, videos, transcripts, analysis>>
callVars == <<pc, op, arg, attempt, waited, started, result, ret, started>>
histVars == <<lastStored, passed, initCompleted, poolAssigns, overwrites>>
cliVars == <<args, options, cliPc, outputData, idx, storeCalls, storeOk,
             fetched, initCalls, outFile, idsFile, stdout, exitCode>>
vars == <<pool, dbVars, callVars, histVars, cliVars>>

\* ----------------------------------------------------------------------
\* The SQL statements, as functions of the tables
\* ----------------------------------------------------------------------
\* Upsert without its ON CONFLICT clause and without the key's uniqueness
InsertOnly(table, row) == table \cup {row}

\* INSERT ... ON CONFLICT (video_id) DO UPDATE SET <every other column>
Upsert(table, row) == {r \in table : r.video_id # row.video_id} \cup {row}

\* VideoRow without the `|| null` of lines 92 and 93
VideoRowAsPassed(m) ==
  [video_id |-> m.id,
   title |-> m.title,
   description |-> Some(m.description),
   published_date |-> Some(m.publishedDate),
   duration_seconds |-> Some(m.durationInSeconds),
   url |-> Some(UrlOf(m.id))]

\* the parameter list of storeVideo's INSERT
VideoRow(m) ==
  [video_id |-> m.id,
   title |-> m.title,
   description |-> Some(m.description),
   published_date |-> OrNull(m.publishedDate, ""),
   duration_seconds |-> OrNull(m.durationInSeconds, 0),
   url |-> Some(UrlOf(m.id))]

\* videos: title TEXT NOT NULL, url TEXT NOT NULL
VideoRowAccepted(row) == row.title # NULL /\ row.url # NULL

\* the tables declared without their FOREIGN KEY clauses
NoForeignKey(videoId) == TRUE

\* FOREIGN KEY (video_id) REFERENCES videos(video_id)
ForeignKeyHolds(videoId) == \E v \in videos : v.video_id = videoId

\* the parameter list of storeTranscript's INSERT
TranscriptRow(a) ==
  [video_id |-> a.videoId,
   full_transcript |-> Some(a.transcript),
   language |-> Some(LanguageOrDefault(a.language))]

\* the parameter list of storeAnalysis's INSERT
AnalysisRow(a) ==
  [video_id |-> a.videoId,
   name |-> Some(a.analysis.name),
   symptoms |-> IF a.analysis.symptoms # NULL
                  THEN Some(JSONstringify(a.analysis.symptoms[1]))
                  ELSE NULL]

\* all orders in which a SELECT without ORDER BY may return the rows
Orderings(S) ==
  {f \in [1 .. Cardinality(S) -> S] :
     \A i, j \in 1 .. Cardinality(S) : i # j => f[i] # f[j]}

\* result.rows.map((row: any) => row.video_id)
VideoIdsOfRows(rows) == [i \in 1 .. Len(rows) |-> rows[i].video_id]

\* ----------------------------------------------------------------------
\* Calls of the persistence layer
\* ----------------------------------------------------------------------
\* A call ends: its promise settles with a value or with the error.
Settle(t, res, value) ==
  /\ pc' = [pc EXCEPT ![t] = "done"]
  /\ result' = [result EXCEPT ![t] = res]
  /\ ret' = [ret EXCEPT ![t] = value]

\* connectWithRetry up to its first await: attempt = 0, new Pool, SELECT 1
connectWithRetry(t) ==
  /\ pc' = [pc EXCEPT ![t] = IF 0 < Retries THEN "connect" ELSE "done"]
  /\ result' = [result EXCEPT ![t] = IF 0 < Retries THEN "pending" ELSE "connect"]
  /\ attempt' = [attempt EXCEPT ![t] = 0]
  /\ waited' = [waited EXCEPT ![t] = 0]

\* The synchronous start of every exported function:
\*   if (!pool) await initializeDatabase();   (functions other than initializeDatabase)
\*   if (!pool) pool = await connectWithRetry();   (initializeDatabase)
\* and, with a pool, the first statement it sends.
Enter(t, o, a) ==
  /\ op' = [op EXCEPT ![t] = o]
  /\ arg' = [arg EXCEPT ![t] = a]
  /\ ret' = [ret EXCEPT ![t] = NULL]
  /\ started' = started + 1
  /\ IF pool = NULL
       THEN connectWithRetry(t)
       ELSE /\ pc' = [pc EXCEPT ![t] =
                        IF o = "initializeDatabase" THEN "create1" ELSE "sql"]
            /\ result' = [result EXCEPT ![t] = "pending"]
            /\ UNCHANGED <<attempt, waited>>

\* A call that has settled leaves its outcome in its slot until a new call
\* takes the slot; a new call takes the first slot with no call in flight.
Free(t) == pc[t] \in {"idle", "done"}

Idle(t) ==
  /\ cliPc = "off"
  /\ Free(t)
  /\ \A u \in Tasks : u < t => ~Free(u)

initializeDatabase(t) ==
  /\ Idle(t)
  /\ Enter(t, "initializeDatabase", NoArg)
  /\ UNCHANGED <<pool, dbVars, histVars, cliVars>>

storeVideo(t) ==
  /\ Idle(t)
  /\ \E m \in VideoMetadata :
       /\ Enter(t, "storeVideo", m)
       /\ passed' = passed \cup {m.id}
  /\ UNCHANGED <<pool, dbVars, lastStored, initCompleted, poolAssigns, overwrites, cliVars>>

storeTranscript(t) ==
  /\ Idle(t)
  /\ \E v \in VideoIds, l \in Languages :
       Enter(t, "storeTranscript", [videoId |-> v, transcript |-> "x", language |-> l])
  /\ UNCHANGED <<pool, dbVars, histVars, cliVars>>

getTranscript(t) ==
  /\ Idle(t)
  /\ \E v \in VideoIds : Enter(t, "getTranscript", [videoId |-> v])
  /\ UNCHANGED <<pool, dbVars, histVars, cliVars>>

getVideoMetadata(t) ==
  /\ Idle(t)
  /\ \E v \in VideoIds : Enter(t, "getVideoMetadata", [videoId |-> v])
  /\ UNCHANGED <<pool, dbVars, histVars, cliVars>>

storeAnalysis(t) ==
  /\ Idle(t)
  /\ \E v \in VideoIds, a \in AnalysisResult :
       Enter(t, "storeAnalysis", [videoId |-> v, analysis |-> a])
  /\ UNCHANGED <<pool, dbVars, histVars, cliVars>>

getAllVideoIds(t) ==
  /\ Idle(t)
  /\ Enter(t, "getAllVideoIds", NoArg)
  /\ UNCHANGED <<pool, dbVars, histVars, cliVars>>

\* const newPool = new Pool(...): the object made by this call's current attempt
NewPool(t) == [task |-> t, attempt |-> attempt[t] + 1]

\* line 17-19 resolved: connectWithRetry returns newPool, initializeDatabase
\* assigns it to `pool` and sends CREATE TABLE videos.
ConnectResolve(t) ==
  /\ pc[t] = "connect"
  /\ pool' = Some(NewPool(t))
  /\ poolAssigns' = poolAssigns + 1
  /\ pc' = [pc EXCEPT ![t] = "create1"]
  /\ attempt' = [attempt EXCEPT ![t] = 0]
  /\ waited' = [waited EXCEPT ![t] = 0]
  /\ UNCHANGED <<dbVars, op, arg, result, ret, started, lastStored, passed, initCompleted,
                 overwrites, cliVars>>

\* ConnectReject with `attempt > retries` in place of `attempt >= retries`
ConnectRejectOneMore(t) ==
  /\ pc[t] = "connect"
  /\ attempt' = [attempt EXCEPT ![t] = attempt[t] + 1]
  /\ IF attempt[t] + 1 > Retries
       THEN Settle(t, "connect", NULL)
       ELSE /\ pc' = [pc EXCEPT ![t] = "sleep"]
            /\ UNCHANGED <<result, ret>>
  /\ UNCHANGED <<pool, dbVars, op, arg, waited, started, histVars, cliVars>>

\* line 17 rejected: the catch block of connectWithRetry; the final throw
\* passes through the catch blocks of initializeDatabase and of the caller.
ConnectReject(t) ==
  /\ pc[t] = "connect"
  /\ attempt' = [attempt EXCEPT ![t] = attempt[t] + 1]
  /\ IF attempt[t] + 1 >= Retries
       THEN Settle(t, "connect", NULL)
       ELSE /\ pc' = [pc EXCEPT ![t] = "sleep"]
            /\ UNCHANGED <<result, ret>>
  /\ UNCHANGED <<pool, dbVars, op, arg, waited, started, histVars, cliVars>>

\* line 24: the timer of retryInterval fires; the loop tests attempt < retries
\* and makes the next attempt (line 27 is the throw after the loop).
RetryTimer(t) ==
  /\ pc[t] = "sleep"
  /\ waited' = [waited EXCEPT ![t] = waited[t] + RetryInterval]
  /\ IF attempt[t] < Retries
       THEN /\ pc' = [pc EXCEPT ![t] = "connect"]
            /\ UNCHANGED <<result, ret>>
       ELSE Settle(t, "connect", NULL)
  /\ UNCHANGED <<pool, dbVars, op, arg, attempt, started, histVars, cliVars>>

\* the table each CREATE TABLE IF NOT EXISTS of initializeDatabase makes
CreatedBy(p) ==
  CASE p = "create1" -> "videos"
    [] p = "create2" -> "transcripts"
    [] p = "create3" -> "analysis"

\* lines 34, 45, 55 resolved: the table exists now; after the third one
\* initializeDatabase returns and its caller sends its own statement.
CreateResolve(t) ==
  /\ pc[t] \in {"create1", "create2", "create3"}
  /\ tables' = tables \cup {CreatedBy(pc[t])}
  /\ CASE pc[t] = "create1" ->
            /\ pc' = [pc EXCEPT ![t] = "create2"]
            /\ UNCHANGED <<result, ret, initCompleted>>
       [] pc[t] = "create2" ->
            /\ pc' = [pc EXCEPT ![t] = "create3"]
            /\ UNCHANGED <<result, ret, initCompleted>>
       [] pc[t] = "create3" ->
            /\ initCompleted' = TRUE
            /\ IF op[t] = "initializeDatabase"
                 THEN Settle(t, "ok", NULL)
                 ELSE /\ pc' = [pc EXCEPT ![t] = "sql"]
                      /\ UNCHANGED <<result, ret>>
  /\ UNCHANGED <<pool, videos, transcripts, analysis, op, arg, attempt, waited, started,
                 lastStored, passed, poolAssigns, overwrites, cliVars>>

\* lines 34, 45, 55 rejected: catch, log, rethrow (lines 73-75)
CreateReject(t) ==
  /\ pc[t] \in {"create1", "create2", "create3"}
  /\ Settle(t, "schema", NULL)
  /\ UNCHANGED <<pool, dbVars, op, arg, attempt, waited, started, histVars, cliVars>>

Sending(t, o) == pc[t] = "sql" /\ op[t] = o

\* line 88 resolved
storeVideoQuery(t) ==
  /\ Sending(t, "storeVideo")
  /\ "videos" \in tables
  /\ VideoRowAccepted(VideoRow(arg[t]))
  /\ videos' = Upsert(videos, VideoRow(arg[t]))
  /\ lastStored' = [lastStored EXCEPT ![arg[t].id] = Some(arg[t])]
  /\ overwrites' = IF \E r \in videos : r.video_id = arg[t].id
                     THEN overwrites + 1 ELSE overwrites
  /\ Settle(t, "ok", NULL)
  /\ UNCHANGED <<pool, tables, transcripts, analysis, op, arg, attempt, waited, started,
                 passed, initCompleted, poolAssigns, cliVars>>

\* line 112 resolved
storeTranscriptQuery(t) ==
  /\ Sending(t, "storeTranscript")
  /\ "transcripts" \in tables
  /\ ForeignKeyHolds(arg[t].videoId)
  /\ transcripts' = Upsert(transcripts, TranscriptRow(arg[t]))
  /\ Settle(t, "ok", NULL)
  /\ UNCHANGED <<pool, tables, videos, analysis, op, arg, attempt, waited, started,
                 histVars, cliVars>>

\* line 128 resolved, line 129
getTranscriptQuery(t) ==
  /\ Sending(t, "getTranscript")
  /\ "transcripts" \in tables
  /\ LET rows == {r \in transcripts : r.video_id = arg[t].videoId}
     IN  IF rows = {}
           THEN Settle(t, "ok", NULL)
           ELSE \E r \in rows :
                  Settle(t, "ok", Some([fullTranscript |-> r.full_transcript[1],
                                        language |-> r.language[1]]))
  /\ UNCHANGED <<pool, dbVars, op, arg, attempt, waited, started, histVars, cliVars>>

\* line 145 resolved, lines 146-156
getVideoMetadataQuery(t) ==
  /\ Sending(t, "getVideoMetadata")
  /\ "videos" \in tables
  /\ LET rows == {r \in videos : r.video_id = arg[t].videoId}
     IN  IF rows = {}
           THEN Settle(t, "ok", NULL)
           ELSE \E row \in rows :
                  Settle(t, "ok",
                    Some([id |-> row.video_id,
                          title |-> row.title,
                          description |-> row.description[1],
                          publishedDate |-> OrDefault(row.published_date, ""),
                          durationInSeconds |-> OrDefault(row.duration_seconds, 0),
                          viewCount |-> 0,
                          url |-> row.url[1]]))
  /\ UNCHANGED <<pool, dbVars, op, arg, attempt, waited, started, histVars, cliVars>>

\* line 186 resolved
storeAnalysisQuery(t) ==
  /\ Sending(t, "storeAnalysis")
  /\ "analysis" \in tables
  /\ ForeignKeyHolds(arg[t].videoId)
  /\ analysis' = Upsert(analysis, AnalysisRow(arg[t]))
  /\ Settle(t, "ok", NULL)
  /\ UNCHANGED <<pool, tables, videos, transcripts, op, arg, attempt, waited, started,
                 histVars, cliVars>>

\* line 209 resolved, line 210
getAllVideoIdsQuery(t) ==
  /\ Sending(t, "getAllVideoIds")
  /\ "videos" \in tables
  /\ \E rows \in Orderings(videos) :
       Settle(t, "ok", Some(VideoIdsOfRows(rows)))
  /\ UNCHANGED <<pool, dbVars, op, arg, attempt, waited, started, histVars, cliVars>>

\* the statement of any function rejected (a missing table, a violated
\* constraint, a lost connection, an ended pool): catch, log, rethrow
QueryReject(t) ==
  /\ pc[t] = "sql"
  /\ Settle(t, "query", NULL)
  /\ UNCHANGED <<pool, dbVars, op, arg, attempt, waited, started, histVars, cliVars>>

\* what a call does between two awaits, once started
Continue(t) ==
  \/ ConnectResolve(t)
  \/ ConnectReject(t)
  \/ RetryTimer(t)
  \/ CreateResolve(t)
  \/ CreateReject(t)
  \/ storeVideoQuery(t)
  \/ storeTranscriptQuery(t)
  \/ getTranscriptQuery(t)
  \/ getVideoMetadataQuery(t)
  \/ storeAnalysisQuery(t)
  \/ getAllVideoIdsQuery(t)
  \/ QueryReject(t)

\* ----------------------------------------------------------------------
\* The persistence layer under overlapping calls
\* ----------------------------------------------------------------------
NoOptions ==
  [disease |-> NULL, maxResults |-> NULL, outputFile |-> NULL,
   videoIdsFile |-> NULL, videoId |-> NULL]

LibInit ==
  /\ pool = NULL
  /\ tables = {}
  /\ videos = {}
  /\ transcripts = {}
  /\ analysis = {}
  /\ pc = [t \in Tasks |-> "idle"]
  /\ op = [t \in Tasks |-> "none"]
  /\ arg = [t \in Tasks |-> NoArg]
  /\ attempt = [t \in Tasks |-> 0]
  /\ waited = [t \in Tasks |-> 0]
  /\ result = [t \in Tasks |-> "none"]
  /\ ret = [t \in Tasks |-> NULL]
  /\ lastStored = [v \in VideoIds |-> NULL]
  /\ passed = {}
  /\ initCompleted = FALSE
  /\ poolAssigns = 0
  /\ overwrites = 0
  /\ started = 0

CliOff ==
  /\ args = <<>>
  /\ options = NoOptions
  /\ cliPc = "off"
  /\ outputData = <<>>
  /\ idx = 0
  /\ storeCalls = <<>>
  /\ storeOk = <<>>
  /\ fetched = [call |-> "none", yield |-> "none"]
  /\ initCalls = 0
  /\ outFile = NULL
  /\ idsFile = NULL
  /\ stdout = <<>>
  /\ exitCode = NULL

Init == LibInit /\ CliOff

\* a caller calls one of the exported functions
Call(t) ==
  \/ initializeDatabase(t)
  \/ storeVideo(t)
  \/ storeTranscript(t)
  \/ getTranscript(t)
  \/ getVideoMetadata(t)
  \/ storeAnalysis(t)
  \/ getAllVideoIds(t)

Next ==
  \E t \in Tasks :
    \/ started < MaxCalls /\ Call(t)
    \/ Continue(t)

Spec == Init /\ [][Next]_vars

\* ----------------------------------------------------------------------
\* The persistence layer under a caller that awaits every call
\* ----------------------------------------------------------------------
SeqNext ==
  \/ started < MaxSeqCalls /\ Call(1)
  \/ Continue(1)

SeqSpec == Init /\ [][SeqNext]_vars

\* ----------------------------------------------------------------------
\* The ingestion CLI: main() of bin/youtube-fetcher.ts
\* ----------------------------------------------------------------------
Flags == {"--disease", "--max-results", "--output-file", "--video-ids-file", "--video-id"}
Tokens == Flags \cup {"2"}
ArgVectors == UNION {[1 .. n -> Tokens] : n \in 0 .. MaxArgs}

\* what the fetch service may hand back: two storable records and one that
\* the videos table rejects (no title)
Fetchable ==
  {[id |-> "a", title |-> Some("t1"), description |-> "d1",
    publishedDate |-> "p1", durationInSeconds |-> 60],
   [id |-> "b", title |-> Some("t2"), description |-> "d2",
    publishedDate |-> "", durationInSeconds |-> 0],
   [id |-> "a", title |-> NULL, description |-> "d1",
    publishedDate |-> "p1", durationInSeconds |-> 60]}
SearchResults == UNION {[1 .. n -> Fetchable] : n \in 0 .. MaxVideos}

\* parseInt(s, 10): a number for a digit string, NaN otherwise
ParseInt(s) == IF s = "2" THEN [nan |-> FALSE, value |-> 2] ELSE [nan |-> TRUE, value |-> 0]

\* the for loop over args, lines 20-37
RECURSIVE ParseFrom(_, _, _)
ParseFrom(a, i, o) ==
  IF i > Len(a) THEN o
  ELSE IF a[i] = "--disease" /\ i + 1 <= Len(a)
    THEN ParseFrom(a, i + 2, [o EXCEPT !.disease = Some(a[i + 1])])
  ELSE IF a[i] = "--max-results" /\ i + 1 <= Len(a)
    THEN ParseFrom(a, i + 2, [o EXCEPT !.maxResults = Some(ParseInt(a[i + 1]))])
  ELSE IF a[i] = "--output-file" /\ i + 1 <= Len(a)
    THEN ParseFrom(a, i + 2, [o EXCEPT !.outputFile = Some(a[i + 1])])
  ELSE IF a[i] = "--video-ids-file" /\ i + 1 <= Len(a)
    THEN ParseFrom(a, i + 2, [o EXCEPT !.videoIdsFile = Some(a[i + 1])])
  ELSE IF a[i] = "--video-id" /\ i + 1 <= Len(a)
    THEN ParseFrom(a, i + 2, [o EXCEPT !.videoId = Some(a[i + 1])])
  ELSE ParseFrom(a, i + 1, o)

ParseArgs(a) == ParseFrom(a, 1, NoOptions)

\* truthiness of an optional string
Truthy(x) == x # NULL /\ x[1] # ""

\* main without the usage check of line 39
UsageNeverChecked(o) == FALSE

\* line 39: if (!options.disease && !options.videoId)
UsageError(o) == ~Truthy(o.disease) /\ ~Truthy(o.videoId)

\* line 49 testing the other flag: the single-video fetch only without --disease
FetchesSingleVideoUnlessDisease(o) == ~Truthy(o.disease)

\* line 49: if (options.videoId)
FetchesSingleVideo(o) == Truthy(o.videoId)

\* line 60: options.maxResults || 1000
MaxResultsOf(o) ==
  IF o.maxResults = NULL \/ o.maxResults[1].nan \/ o.maxResults[1].value = 0
    THEN DefaultMaxResults
    ELSE o.maxResults[1].value

\* main without the check of line 75
NeverNothingToProcess(data) == FALSE

\* line 75: if (outputData.length === 0)
NothingToProcess(data) == Len(data) = 0

\* a store loop that leaves out every other record
SkipsARecord(i) == i + 2

\* the store loop's step to the following record, line 81
NextRecord(i) == i + 1

\* process.exit(code)
Exit(code) == cliPc' = "exited" /\ exitCode' = Some(code)

\* lines 16-46: parse, usage check, and the call of initializeDatabase
Main ==
  /\ cliPc = "start"
  /\ LET o == ParseArgs(args)
     IN  /\ options' = o
         /\ IF UsageError(o)
              THEN /\ Exit(1)
                   /\ UNCHANGED <<callVars, initCalls>>
              ELSE /\ cliPc' = "init"
                   /\ initCalls' = initCalls + 1
                   /\ Enter(1, "initializeDatabase", NoArg)
                   /\ UNCHANGED exitCode
  /\ UNCHANGED <<pool, dbVars, histVars, args, outputData, idx, storeCalls,
                 storeOk, fetched, outFile, idsFile, stdout>>

\* line 46 settled: on an error the outer catch exits with 1 (lines 118-121);
\* otherwise the fetch call is made (lines 49-51 or 59)
InitReturned ==
  /\ cliPc = "init"
  /\ pc[1] = "done"
  /\ IF result[1] # "ok"
       THEN Exit(1) /\ UNCHANGED fetched
       ELSE /\ IF FetchesSingleVideo(options)
                 THEN /\ cliPc' = "details"
                      /\ fetched' = [call |-> "details", yield |-> "pending",
                                     videoId |-> options.videoId[1]]
                 ELSE /\ cliPc' = "search"
                      /\ fetched' = [call |-> "search", yield |-> "pending",
                                     disease |-> options.disease[1],
                                     maxResults |-> MaxResultsOf(options)]
            /\ UNCHANGED exitCode
  /\ UNCHANGED <<pool, dbVars, callVars, histVars, args, options, outputData, idx,
                 storeCalls, storeOk, initCalls, outFile, idsFile, stdout>>

\* lines 90-117 up to the first await, entered at `from`: "out" before line 91,
\* "ids" before line 97, "stdout" before line 104
\* lines 105-116: one line per record, a record whose write throws is skipped
RECURSIVE Lines(_, _, _)
Lines(data, written, i) ==
  IF i > Len(data) THEN <<>>
  ELSE (IF i \in written THEN <<<<JSONstringify(data[i]), "\n">>>> ELSE <<>>)
         \o Lines(data, written, i + 1)

OutputOf(from, data) ==
  IF from = "out" /\ Truthy(options.outputFile)
    THEN /\ cliPc' = "writeOut"
         /\ UNCHANGED <<exitCode, stdout>>
  ELSE IF from \in {"out", "ids"} /\ Truthy(options.videoIdsFile)
    THEN /\ cliPc' = "writeIds"
         /\ UNCHANGED <<exitCode, stdout>>
  ELSE /\ IF ~Truthy(options.outputFile) /\ ~Truthy(options.videoIdsFile)
            THEN \E written \in SUBSET (1 .. Len(data)) :
                   stdout' = Lines(data, written, 1)
            ELSE UNCHANGED stdout
       /\ Exit(0)

Output(from) == OutputOf(from, outputData)

\* lines 65-88 up to the first await: collect the records, leave when there
\* is none, else pass the first one to storeVideo
Collect(videoList) ==
  /\ outputData' = videoList
  /\ fetched' = [fetched EXCEPT !.yield = IF videoList = <<>> THEN "empty" ELSE "records"]
  /\ IF NothingToProcess(videoList)
       THEN /\ Exit(1)
            /\ UNCHANGED <<callVars, passed, idx, storeCalls, stdout>>
       ELSE IF 1 <= Len(videoList)
         THEN /\ cliPc' = "store"
              /\ idx' = 1
              /\ storeCalls' = <<videoList[1]>>
              /\ passed' = passed \cup {videoList[1].id}
              /\ Enter(1, "storeVideo", videoList[1])
              /\ UNCHANGED <<exitCode, stdout>>
         ELSE /\ OutputOf("out", videoList)
              /\ UNCHANGED <<callVars, passed, idx, storeCalls>>
  /\ UNCHANGED <<pool, dbVars, lastStored, initCompleted, poolAssigns, overwrites, args,
                 options, storeOk, initCalls, outFile, idsFile>>

\* line 51 resolved: a record (lines 52-53) or nothing (lines 54-56)
DetailsResolve ==
  /\ cliPc = "details"
  /\ \/ \E video \in Fetchable : Collect(<<video>>)
     \/ /\ fetched' = [fetched EXCEPT !.yield = "empty"]
        /\ Exit(1)
        /\ UNCHANGED <<pool, dbVars, callVars, histVars, args, options, outputData, idx,
                       storeCalls, storeOk, initCalls, outFile, idsFile, stdout>>

\* line 59 resolved
SearchResolve ==
  /\ cliPc = "search"
  /\ \E found \in SearchResults : Collect(found)

\* lines 50, 51 or 59 rejected: the outer catch, lines 118-121
FetchReject ==
  /\ cliPc \in {"details", "search"}
  /\ fetched' = [fetched EXCEPT !.yield = "error"]
  /\ Exit(1)
  /\ UNCHANGED <<pool, dbVars, callVars, histVars, args, options, outputData, idx,
                 storeCalls, storeOk, initCalls, outFile, idsFile, stdout>>

\* line 83 settled: the inner try/catch logs either outcome and the loop goes
\* on; after the last record the output phase begins
StoreReturned ==
  /\ cliPc = "store"
  /\ pc[1] = "done"
  /\ storeOk' = Append(storeOk, result[1] = "ok")
  /\ IF NextRecord(idx) <= Len(outputData)
       THEN /\ idx' = NextRecord(idx)
            /\ storeCalls' = Append(storeCalls, outputData[NextRecord(idx)])
            /\ passed' = passed \cup {outputData[NextRecord(idx)].id}
            /\ Enter(1, "storeVideo", outputData[NextRecord(idx)])
            /\ UNCHANGED <<cliPc, exitCode, stdout>>
       ELSE /\ Output("out")
            /\ UNCHANGED <<callVars, passed, idx, storeCalls>>
  /\ UNCHANGED <<pool, dbVars, lastStored, initCompleted, poolAssigns, overwrites, args,
                 options, outputData, fetched, initCalls, outFile, idsFile>>

\* line 92 resolved
WriteOutResolve ==
  /\ cliPc = "writeOut"
  /\ outFile' = Some(JSONstringify(outputData))
  /\ Output("ids")
  /\ UNCHANGED <<pool, dbVars, callVars, histVars, args, options, outputData, idx,
                 storeCalls, storeOk, fetched, initCalls, idsFile>>

\* line 98: outputData.map(video => video.id)
IdsOf(data) == [i \in 1 .. Len(data) |-> data[i].id]

\* line 99 resolved
WriteIdsResolve ==
  /\ cliPc = "writeIds"
  /\ idsFile' = Some(JSONstringify(IdsOf(outputData)))
  /\ Output("stdout")
  /\ UNCHANGED <<pool, dbVars, callVars, histVars, args, options, outputData, idx,
                 storeCalls, storeOk, fetched, initCalls, outFile>>

\* line 92 or 99 rejected: the outer catch, lines 118-121
WriteReject ==
  /\ cliPc \in {"writeOut", "writeIds"}
  /\ Exit(1)
  /\ UNCHANGED <<pool, dbVars, callVars, histVars, args, options, outputData, idx,
                 storeCalls, storeOk, fetched, initCalls, outFile, idsFile, stdout>>

CliInit ==
  /\ LibInit
  /\ args \in ArgVectors
  /\ options = NoOptions
  /\ cliPc = "start"
  /\ outputData = <<>>
  /\ idx = 0
  /\ storeCalls = <<>>
  /\ storeOk = <<>>
  /\ fetched = [call |-> "none", yield |-> "none"]
  /\ initCalls = 0
  /\ outFile = NULL
  /\ idsFile = NULL
  /\ stdout = <<>>
  /\ exitCode = NULL

CliNext ==
  \/ Main
  \/ InitReturned
  \/ DetailsResolve
  \/ SearchResolve
  \/ FetchReject
  \/ StoreReturned
  \/ WriteOutResolve
  \/ WriteIdsResolve
  \/ WriteReject
  \/ (cliPc \in {"init", "store"} /\ Continue(1))

CliSpec == CliInit /\ [][CliNext]_vars

\* ======================================================================
\* Properties of the persistence layer
\* ======================================================================
RowsOf(table, id) == {r \in table : r.video_id = id}

Occurrences(seq, x) == Cardinality({i \in 1 .. Len(seq) : seq[i] = x})

\* ---------------------------------------------------------------- C1
\* C1 as stated: for every video ID the videos table holds no row before a
\* storeVideo call for it has succeeded and exactly one row afterwards, and
\* that row's title, description, published date and duration are the values
\* passed to the most recent successful storeVideo call for the ID.
C1_RowHoldsPassedValues ==
  \A id \in VideoIds :
    IF lastStored[id] = NULL
      THEN RowsOf(videos, id) = {}
      ELSE /\ Cardinality(RowsOf(videos, id)) = 1
           /\ \A r \in RowsOf(videos, id) :
                /\ r.title = lastStored[id][1].title
                /\ r.description = Some(lastStored[id][1].description)
                /\ r.published_date = Some(lastStored[id][1].publishedDate)
                /\ r.duration_seconds = Some(lastStored[id][1].durationInSeconds)

\* the row C1 as amended expects for a metadata record: an empty published
\* date and a zero duration are stored as null
C1_ExpectedRow(m, r) ==
  /\ r.title = m.title
  /\ r.description = Some(m.description)
  /\ r.published_date = (IF m.publishedDate = "" THEN NULL ELSE Some(m.publishedDate))
  /\ r.duration_seconds =
       (IF m.durationInSeconds = 0 THEN NULL ELSE Some(m.durationInSeconds))

C1_OneRowLatestValues ==
  \A id \in VideoIds :
    IF lastStored[id] = NULL
      THEN RowsOf(videos, id) = {}
      ELSE /\ Cardinality(RowsOf(videos, id)) = 1
           /\ \A r \in RowsOf(videos, id) : C1_ExpectedRow(lastStored[id][1], r)

C1_StoringAgainChangesNothing ==
  \A t \in Tasks :
    (/\ pc[t] = "sql" /\ op[t] = "storeVideo"
     /\ result'[t] = "ok"
     /\ lastStored[arg[t].id] = Some(arg[t]))
    => videos' = videos

\* C1 (amended): after any sequence of calls the videos table holds exactly
\* one row for every ID a storeVideo call has succeeded for (none for the
\* others); the row's title and description are those of the most recent
\* successful storeVideo call for the ID, and so are its published date and
\* duration except that an empty date and a zero duration are stored as
\* null; storing the record that was stored last leaves the table as it is.
C1_Upsert == []C1_OneRowLatestValues /\ [][C1_StoringAgainChangesNothing]_vars

\* a row has been overwritten by a record with the empty date and the zero
\* duration, and the same record was then stored once more
C1_Witness ==
  /\ overwrites >= 2
  /\ \E id \in VideoIds :
       /\ lastStored[id] # NULL
       /\ lastStored[id][1].publishedDate = ""
       /\ lastStored[id][1].durationInSeconds = 0
       /\ Cardinality(RowsOf(videos, id)) = 1

\* ---------------------------------------------------------------- C3
C3_RowsReferenceVideos ==
  \A r \in transcripts \cup analysis : \E v \in videos : v.video_id = r.video_id

C3_OrphanIsRejected ==
  \A t \in Tasks :
    (/\ pc[t] = "sql" /\ op[t] \in {"storeTranscript", "storeAnalysis"}
     /\ pc'[t] = "done"
     /\ ~ \E v \in videos : v.video_id = arg[t].videoId)
    => /\ result'[t] = "query"
       /\ videos' = videos /\ transcripts' = transcripts /\ analysis' = analysis

\* C3: a storeTranscript or storeAnalysis statement for a video ID with no
\* row in videos settles with the store error and changes none of the three
\* tables; in every state each transcripts row and each analysis row has a
\* videos row with its video_id.
C3_ForeignKey == []C3_RowsReferenceVideos /\ [][C3_OrphanIsRejected]_vars

\* with the schema in place and a video stored, a transcript for another,
\* never stored ID has been refused
C3_Witness ==
  \E t \in Tasks :
    /\ pc[t] = "done" /\ op[t] = "storeTranscript" /\ result[t] = "query"
    /\ {"videos", "transcripts", "analysis"} \subseteq tables
    /\ videos # {}
    /\ RowsOf(videos, arg[t].videoId) = {}
    /\ transcripts = {} /\ analysis = {}

\* ---------------------------------------------------------------- C8
\* C8 as stated: the list getAllVideoIds returns holds every ID that has been
\* passed to storeVideo exactly once.
C8_ReturnsEveryPassedId ==
  \A t \in Tasks :
    (pc[t] = "done" /\ op[t] = "getAllVideoIds" /\ result[t] = "ok")
    => \A id \in passed : Occurrences(ret[t][1], id) = 1

\* C8 (amended): the list getAllVideoIds returns holds every ID for which a
\* storeVideo call has succeeded exactly once, and no ID twice, in whatever
\* order the IDs were stored.
C8_ReturnsEveryStoredId ==
  \A t \in Tasks :
    (pc[t] = "done" /\ op[t] = "getAllVideoIds" /\ result[t] = "ok")
    => /\ \A id \in VideoIds :
            lastStored[id] # NULL => Occurrences(ret[t][1], id) = 1
       /\ \A id \in VideoIds : Occurrences(ret[t][1], id) <= 1

\* both IDs were stored, one of them twice, and getAllVideoIds returned "b"
\* before "a"
C8_Witness ==
  \E t \in Tasks :
    /\ pc[t] = "done" /\ op[t] = "getAllVideoIds" /\ result[t] = "ok"
    /\ ret[t][1] = <<"b", "a">>
    /\ overwrites >= 1

\* ---------------------------------------------------------------- C6
Connecting(t) == pc[t] \in {"connect", "sleep"}

C6_Bounded ==
  \A t \in Tasks :
    /\ pc[t] = "connect" =>
         /\ attempt[t] + 1 <= 5
         /\ waited[t] = 2000 * attempt[t]
    /\ pc[t] = "sleep" =>
         /\ attempt[t] \in 1 .. 4
         /\ waited[t] = 2000 * (attempt[t] - 1)
    /\ (pc[t] = "done" /\ result[t] = "connect") =>
         /\ attempt[t] = 5
         /\ waited[t] = 2000 * 4

C6_Step ==
  \A t \in Tasks :
    /\ (pc[t] = "connect" /\ pc'[t] = "create1") =>
         pool' = Some([task |-> t, attempt |-> attempt[t] + 1])
    /\ (Connecting(t) /\ pc'[t] = "done") =>
         /\ result'[t] = "connect"
         /\ pool' = pool
    /\ (Connecting(t) /\ Connecting(t)' /\ <<pc[t], attempt[t]>> # <<pc[t], attempt[t]>>') =>
         \/ pc[t] = "connect" /\ pc'[t] = "sleep" /\ attempt'[t] = attempt[t] + 1
         \/ pc[t] = "sleep" /\ pc'[t] = "connect" /\ attempt'[t] = attempt[t]
                            /\ waited'[t] = waited[t] + 2000

\* C6: connectWithRetry makes at most 5 attempts and every step of it either
\* ends it or moves it on (attempt, delay, attempt, ...), so it ends; having
\* made k attempts it has waited k - 1 delays of 2000 ms, none before the
\* first attempt and none after the fifth failure; the attempt whose query
\* succeeds ends it and its Pool becomes the shared pool; the fifth failure
\* ends it with the connection error and leaves the shared pool as it was.
C6_ConnectWithRetry == []C6_Bounded /\ [][C6_Step]_vars

\* a call whose five attempts all failed: it waited four delays and the
\* shared pool is still unset
C6_Witness ==
  \E t \in Tasks :
    /\ pc[t] = "done" /\ result[t] = "connect"
    /\ attempt[t] = 5 /\ waited[t] = 8000
    /\ pool = NULL

\* ---------------------------------------------------------------- C7
\* C7: over any interleaving of calls at most one connectWithRetry result is
\* ever assigned to the shared pool, so a pool that is set is never replaced.
C7_PoolCreatedOnce == poolAssigns <= 1

\* ---------------------------------------------------------------- C10
\* C10: whenever a persistence function has sent its own SQL statement, some
\* initializeDatabase call has run all three CREATE TABLE statements to the
\* end.
C10_InitializedBeforeStatement ==
  \A t \in Tasks : pc[t] = "sql" => initCompleted

\* ======================================================================
\* Properties of the CLI
\* ======================================================================
\* the flag occurs in the argument vector with an argument after it
Given(flag) == \E i \in 1 .. Len(args) - 1 : args[i] = flag

Exited(code) == cliPc = "exited" /\ exitCode = Some(code)

NoOutput == outFile = NULL /\ idsFile = NULL /\ stdout = <<>>

\* ---------------------------------------------------------------- C2
\* the store loop is over
C2_StorePhaseOver ==
  \/ cliPc \in {"writeOut", "writeIds"}
  \/ cliPc = "exited" /\ fetched.yield = "records"

\* the latest record with this ID whose store call returned
C2_LatestStored(i) ==
  storeOk[i] /\ \A j \in i + 1 .. Len(storeOk) :
                  ~(storeOk[j] /\ storeCalls[j].id = storeCalls[i].id)

C2_StoreLoop ==
  /\ Len(storeCalls) <= Len(outputData)
  /\ storeCalls = SubSeq(outputData, 1, Len(storeCalls))
  /\ Len(storeOk) <= Len(storeCalls)
  /\ C2_StorePhaseOver =>
       /\ storeCalls = outputData
       /\ Len(storeOk) = Len(outputData)
  /\ \A i \in 1 .. Len(storeOk) :
       C2_LatestStored(i) =>
         \E r \in videos :
           /\ r.video_id = storeCalls[i].id
           /\ r.title = storeCalls[i].title
           /\ r.description = Some(storeCalls[i].description)
  /\ (/\ cliPc = "exited" /\ fetched.yield = "records"
      /\ Truthy(options.outputFile) => outFile # NULL
      /\ Truthy(options.videoIdsFile) => idsFile # NULL)
     => exitCode = Some(0)

C2_StoreNeverExits == cliPc = "store" => cliPc' \in {"store", "writeOut", "writeIds"}
                                          \/ (cliPc' = "exited" /\ exitCode' = Some(0))

\* C2: in the store phase main passes every collected record to storeVideo
\* once, in list order, whatever became of the earlier ones; every record
\* whose call returned is in the videos table; the store phase never ends the
\* run with a nonzero code, and a run whose output phase writes what was
\* asked for exits with 0.
C2_StorePhase == []C2_StoreLoop /\ [][C2_StoreNeverExits]_vars

\* three records were fetched, only the second failed to store, the first
\* and the third are in the table and the run has exited with 0
C2_Witness ==
  /\ Exited(0)
  /\ Len(outputData) = 3
  /\ storeOk = <<TRUE, FALSE, TRUE>>
  /\ storeCalls[1].id # storeCalls[3].id
  /\ \A i \in {1, 3} : \E r \in videos : r.video_id = storeCalls[i].id

\* ---------------------------------------------------------------- C4
\* C4: a run given neither --disease nor --video-id with an argument after
\* it (a flag that is the last argument counts as not given) exits with code
\* 1 and has initialised no database, fetched nothing and stored nothing.
C4_UsageExit ==
  (cliPc # "start" /\ ~Given("--disease") /\ ~Given("--video-id"))
  => /\ Exited(1)
     /\ initCalls = 0 /\ started = 0 /\ pool = NULL /\ tables = {}
     /\ fetched.call = "none"
     /\ storeCalls = <<>> /\ videos = {}

\* such a run has ended, and --disease was its last argument
C4_Witness ==
  /\ cliPc = "exited"
  /\ ~Given("--disease") /\ ~Given("--video-id")
  /\ Len(args) >= 2 /\ args[Len(args)] = "--disease"

\* ---------------------------------------------------------------- C5
\* C5: a run whose fetch yields no record (no result for --video-id, or an
\* empty search result) exits with code 1, has passed nothing to storeVideo
\* and has written no file and no line.
C5_EmptyFetchExit ==
  fetched.yield = "empty"
  => /\ Exited(1)
     /\ storeCalls = <<>> /\ passed = {} /\ videos = {}
     /\ NoOutput

\* a keyword search that found nothing has ended the run
C5_Witness ==
  /\ fetched.call = "search" /\ fetched.yield = "empty"
  /\ cliPc = "exited"
  /\ Truthy(options.outputFile)

\* ---------------------------------------------------------------- C9
\* C9 as stated: a run gets past flag parsing only if exactly one of the two
\* flags was given (the parser has set exactly one of the two options), and
\* a run given both neither fetches nor stores.
C9_ExactlyOneFlag ==
  /\ initCalls > 0 => (Truthy(options.disease) # Truthy(options.videoId))
  /\ (cliPc # "start" /\ Truthy(options.disease) /\ Truthy(options.videoId))
       => fetched.call = "none" /\ storeCalls = <<>>

\* C9 (amended): a run gets past flag parsing only if at least one of the two
\* flags was given with an argument after it; a run whose arguments set
\* both options goes on to initialise the database and fetches the single
\* video of --video-id, never the keyword search.
C9_AtLeastOneFlag ==
  /\ initCalls > 0 => (Given("--disease") \/ Given("--video-id"))
  /\ (cliPc # "start" /\ Truthy(options.disease) /\ Truthy(options.videoId))
       => /\ initCalls = 1
          /\ fetched.call \in {"none", "details"}
          /\ (storeCalls # <<>> => fetched.call = "details")

\* a run given both flags has fetched the single video and stored it
C9_Witness ==
  /\ args = <<"--disease", "2", "--video-id", "2">>
  /\ fetched.call = "details"
  /\ storeOk = <<TRUE>>
  /\ Exited(0)

====
